---------------------------- MODULE Spec2Model ----------------------------
(***************************************************************************)
(* Model of the try-collect crate (src/src/lib.rs).                        *)
(*                                                                         *)
(* Two callers drive partial_array::PartialArray<A, N>:                    *)
(*   - "adapter": <[A; N] as TryFromIterator<A>>::try_from_iter, which     *)
(*     pulls values from an iterator and pushes them (lines 27-42);        *)
(*   - "client": code that uses new / push / full / into_array directly    *)
(*     and may leave the buffer at any time, as the unit tests of the      *)
(*     crate do (lines 136-178).                                           *)
(*                                                                         *)
(* Slot indices are the code's: the array field is a function on 0..N-1.   *)
(* Every value of type A carries an identity `id` (the number of values    *)
(* produced before it) and a payload `val`, so that a destruction can be   *)
(* attributed to one value: this is the Guard of tests::partial_array_drop.*)
(***************************************************************************)
EXTENDS Integers, Sequences, FiniteSets

\* Largest capacity N explored.
MaxN == 3
\* An iterator yields at most N + MaxExtra values before it ends (or cycles).
MaxExtra == 2
\* Payloads are 1..MaxVal.
MaxVal == 2

Vals == 1..MaxVal

VARIABLES
    caller,    \* "adapter" (try_from_iter) or "client" (direct use of PartialArray)
    N,         \* the const generic N
    src,       \* the payloads the iterator yields, in order
    iterKind,  \* "finite": None after src; "endless": cycles src; "failing": panics after src
    produced,  \* number of values produced so far (pulled from the iterator / built by the client)
    val,       \* the value held by the loop variable `val` / push's parameter `val`
    array,     \* PartialArray::array, slot i |-> value or Uninit
    len,       \* PartialArray::len
    buf,       \* the PartialArray value: "none", "owned", "forgotten", "dropped"
    arr,       \* into_array's local `array`: <<>> before the read, <<f>> after
    result,    \* what the caller got back: [tag, arr]
    ret,       \* what the client's last call of full() returned: <<>> or <<b>>
    panic,     \* the message of the panic that is unwinding or has unwound, "" if none
    dropLog,   \* the destructions so far, in order: [id, by]
    acc,       \* the slot accesses of the last step: <<kind, i>>
    pc         \* position of the caller

vars == <<caller, N, src, iterKind, produced, val, array, len, buf, arr,
          result, ret, panic, dropLog, acc, pc>>

\* A slot of MaybeUninit<A> that was not written; also a moved-out `val`.
Uninit == [id |-> 0 - 1, val |-> 0]

Item(i, v) == [id |-> i, val |-> v]

NoArray == [i \in {} |-> Uninit]

NoResult == [tag |-> "None", arr |-> NoArray]

\* Err(NonMatchingLenError): the unit struct of lines 13-14 carries nothing.
Err == [tag |-> "Err", arr |-> NoArray]

\* Ok(array) of line 41.
Ok(a) == [tag |-> "Ok", arr |-> a]

\* What the caller observes when a panic has unwound through it.
Panicked == [tag |-> "Panic", arr |-> NoArray]

Slots == 0 .. (N - 1)

\* All sequences over S of length at most n.
SeqUpTo(S, n) == UNION {[1..k -> S] : k \in 0..n}

\* full() that answers one push early: len + 1 >= N.
full_early == len + 1 >= N

\* PartialArray::full (lines 82-84).
full == len = N

\* A destructor loop that stops one slot early: for i in 0..len-1.
drop_values_short == [i \in 1..(len - 1) |-> [id |-> array[i - 1].id, by |-> "buffer"]]

\* A destructor loop over the whole storage: for i in 0..N.
drop_values_all == [i \in 1..N |-> [id |-> array[i - 1].id, by |-> "buffer"]]

\* The destructions <PartialArray as Drop>::drop performs, in order (lines 99-105).
drop_values == [i \in 1..len |-> [id |-> array[i - 1].id, by |-> "buffer"]]

\* The slots <PartialArray as Drop>::drop touches (lines 99-105).
drop_slots == {<<"drop", i>> : i \in 0 .. (len - 1)}

\* The destruction of the loop variable / parameter `val`, if it holds a value.
drop_val == IF val = Uninit THEN <<>> ELSE <<[id |-> val.id, by |-> "local"]>>

\* Dropping a completed [A; N]: element by element, in index order.
drop_array(a) == [i \in 1..N |-> [id |-> a[i - 1].id, by |-> "array"]]

\* new() that starts with len = N, as if the storage were already initialized.
new_len_N(cont) ==
    /\ pc = "start"
    /\ array' = [i \in Slots |-> Uninit]
    /\ len' = N
    /\ buf' = "owned"
    /\ acc' = {}
    /\ pc' = cont
    /\ UNCHANGED <<caller, N, src, iterKind, produced, val, arr, result, ret,
                   panic, dropLog>>

\* PartialArray::new (lines 66-74), then the caller continues at `cont`.
new(cont) ==
    /\ pc = "start"
    /\ array' = [i \in Slots |-> Uninit]
    /\ len' = 0
    /\ buf' = "owned"
    /\ acc' = {}
    /\ pc' = cont
    /\ UNCHANGED <<caller, N, src, iterKind, produced, val, arr, result, ret,
                   panic, dropLog>>

\* push that fills the storage from the back: slot N-1-len instead of slot len.
push_reversed(item, cont) ==
    IF len < N
      THEN /\ array' = [array EXCEPT ![N - 1 - len] = item]
           /\ len' = len + 1
           /\ acc' = {<<"write", N - 1 - len>>}
           /\ val' = Uninit
           /\ pc' = cont
           /\ panic' = panic
      ELSE /\ panic' = "PartialArray already full."
           /\ val' = item
           /\ acc' = {}
           /\ pc' = "unwind"
           /\ UNCHANGED <<array, len>>

\* push that, on a full buffer, overwrites the last live slot instead of panicking.
push_overwrite(item, cont) ==
    IF len < N
      THEN /\ array' = [array EXCEPT ![len] = item]
           /\ len' = len + 1
           /\ acc' = {<<"write", len>>}
           /\ val' = Uninit
           /\ pc' = cont
           /\ panic' = panic
      ELSE IF N = 0
      THEN /\ panic' = "PartialArray already full."
           /\ val' = item
           /\ acc' = {}
           /\ pc' = "unwind"
           /\ UNCHANGED <<array, len>>
      ELSE /\ array' = [array EXCEPT ![N - 1] = item]
           /\ len' = len
           /\ acc' = {<<"write", N - 1>>}
           /\ val' = Uninit
           /\ pc' = cont
           /\ panic' = panic

\* PartialArray::push (lines 76-80) of `item`, then the caller continues at `cont`.
push(item, cont) ==
    IF len < N
      THEN /\ array' = [array EXCEPT ![len] = item]
           /\ len' = len + 1
           /\ acc' = {<<"write", len>>}
           /\ val' = Uninit
           /\ pc' = cont
           /\ panic' = panic
      ELSE /\ panic' = "PartialArray already full."
           /\ val' = item
           /\ acc' = {}
           /\ pc' = "unwind"
           /\ UNCHANGED <<array, len>>

Init ==
    /\ caller \in {"adapter", "client"}
    /\ N \in 0..MaxN
    /\ src \in IF caller = "adapter" THEN SeqUpTo(Vals, N + MaxExtra) ELSE {<<>>}
    /\ iterKind \in IF caller = "client" THEN {"finite"}
                    ELSE IF src = <<>> THEN {"finite", "failing"}
                    ELSE {"finite", "endless", "failing"}
    /\ produced = 0
    /\ val = Uninit
    /\ array = [i \in Slots |-> Uninit]
    /\ len = 0
    /\ buf = "none"
    /\ arr = <<>>
    /\ result = NoResult
    /\ ret = <<>>
    /\ panic = ""
    /\ dropLog = <<>>
    /\ acc = {}
    /\ pc = "start"


\* A PartialArray without a Drop implementation: letting go of it destructs nothing.
drop_nothing(log) ==
    /\ dropLog' = log
    /\ acc' = {}
    /\ buf' = "dropped"

\* <PartialArray as Drop>::drop (lines 97-107), run when the owner lets go of the
\* buffer; `log` is the destruction log at that moment.
drop(log) ==
    /\ dropLog' = log \o drop_values
    /\ acc' = drop_slots
    /\ buf' = "dropped"

\* Line 31: let mut partial = PartialArray::<A, N>::new().
try_from_iter_new ==
    /\ caller = "adapter"
    /\ new("for")

\* Whether the iterator's next() yields a value.
has_next == iterKind = "endless" \/ produced < Len(src)

\* Line 32: `for val in iter` calls next(): a value, None, or a panic in the iterator.
iter_next ==
    /\ pc = "for"
    /\ IF has_next
         THEN /\ val' = Item(produced, src[(produced % Len(src)) + 1])
              /\ produced' = produced + 1
              /\ pc' = "body"
              /\ panic' = panic
         ELSE /\ pc' = IF iterKind = "failing" THEN "unwind" ELSE "after"
              /\ panic' = IF iterKind = "failing" THEN "iterator" ELSE panic
              /\ UNCHANGED <<val, produced>>
    /\ acc' = {}
    /\ UNCHANGED <<caller, N, src, iterKind, array, len, buf, arr, result, ret, dropLog>>

\* try_from_iter without the check of lines 33-35: every value is pushed.
loop_body_unchecked ==
    /\ pc = "body"
    /\ push(val, "for")
    /\ UNCHANGED <<caller, N, src, iterKind, produced, buf, arr, result, ret, dropLog>>

\* try_from_iter that skips the values beyond N instead of returning: the loop
\* drops the extra value and goes on pulling.
loop_body_drain ==
    /\ pc = "body"
    /\ IF full
         THEN /\ dropLog' = dropLog \o drop_val
              /\ val' = Uninit
              /\ acc' = {}
              /\ pc' = "for"
              /\ UNCHANGED <<array, len, panic, buf, result>>
         ELSE /\ push(val, "for")
              /\ UNCHANGED <<buf, result, dropLog>>
    /\ UNCHANGED <<caller, N, src, iterKind, produced, arr, ret>>

\* Lines 33-36: the loop body. On a full buffer `return Err(NonMatchingLenError)`
\* drops `val` and then `partial`; otherwise partial.push(val). (The iterator is
\* dropped too; what it does with the values it still holds is its own business.)
loop_body ==
    /\ pc = "body"
    /\ IF full
         THEN /\ drop(dropLog \o drop_val)
              /\ val' = Uninit
              /\ result' = Err
              /\ pc' = "done"
              /\ UNCHANGED <<array, len, panic>>
         ELSE /\ push(val, "for")
              /\ UNCHANGED <<buf, result, dropLog>>
    /\ UNCHANGED <<caller, N, src, iterKind, produced, arr, ret>>

\* try_from_iter without the check of lines 38-40: the buffer is always finalized.
after_loop_unchecked ==
    /\ pc = "after"
    /\ pc' = "into_array"
    /\ acc' = {}
    /\ UNCHANGED <<caller, N, src, iterKind, produced, val, array, len, buf, arr,
                   result, ret, panic, dropLog>>

\* Lines 38-41: after the loop. A buffer that is not full is dropped by
\* `return Err(NonMatchingLenError)`; a full one is moved into into_array.
after_loop ==
    /\ pc = "after"
    /\ IF ~full
         THEN /\ drop(dropLog)
              /\ result' = Err
              /\ pc' = "done"
         ELSE /\ pc' = "into_array"
              /\ acc' = {}
              /\ UNCHANGED <<buf, result, dropLog>>
    /\ UNCHANGED <<caller, N, src, iterKind, produced, val, array, len, arr, ret, panic>>

\* into_array without the assertion of line 87: the storage is read whatever len is.
into_array_read_unchecked ==
    /\ pc = "into_array"
    /\ arr' = <<array>>
    /\ acc' = {<<"read", i>> : i \in Slots}
    /\ pc' = "forget"
    /\ UNCHANGED <<caller, N, src, iterKind, produced, val, array, len, buf, result,
                   ret, panic, dropLog>>

\* into_array that disarms `self` before it asserts: a failed assertion then
\* unwinds past a buffer nobody owns.
into_array_read_disarm_first ==
    /\ pc = "into_array"
    /\ IF full
         THEN /\ arr' = <<array>>
              /\ acc' = {<<"read", i>> : i \in Slots}
              /\ pc' = "forget"
              /\ panic' = panic
              /\ buf' = buf
         ELSE /\ panic' = "PartialArray not yet fully initialized."
              /\ acc' = {}
              /\ pc' = "unwind"
              /\ arr' = arr
              /\ buf' = "forgotten"
    /\ UNCHANGED <<caller, N, src, iterKind, produced, val, array, len, result,
                   ret, dropLog>>

\* Lines 87-91 of into_array: the assertion, then the read of the whole storage
\* as [A; N] into the local `array`.
into_array_read ==
    /\ pc = "into_array"
    /\ IF full
         THEN /\ arr' = <<array>>
              /\ acc' = {<<"read", i>> : i \in Slots}
              /\ pc' = "forget"
              /\ panic' = panic
         ELSE /\ panic' = "PartialArray not yet fully initialized."
              /\ acc' = {}
              /\ pc' = "unwind"
              /\ arr' = arr
    /\ UNCHANGED <<caller, N, src, iterKind, produced, val, array, len, buf, result,
                   ret, dropLog>>

\* into_array without line 92: `self` stays armed.
into_array_forget_missing ==
    /\ pc = "forget"
    /\ acc' = {}
    /\ pc' = "return"
    /\ UNCHANGED <<caller, N, src, iterKind, produced, val, array, len, buf, arr, result,
                   ret, panic, dropLog>>

\* Line 92 of into_array: core::mem::forget(self).
into_array_forget ==
    /\ pc = "forget"
    /\ buf' = "forgotten"
    /\ acc' = {}
    /\ pc' = "return"
    /\ UNCHANGED <<caller, N, src, iterKind, produced, val, array, len, arr, result,
                   ret, panic, dropLog>>

\* Line 93 of into_array: the local `array` is moved to the caller (line 41 wraps
\* it in Ok). A `self` that is still owned at this point leaves scope here.
into_array_return ==
    /\ pc = "return"
    /\ result' = Ok(arr[1])
    /\ arr' = <<>>
    /\ IF buf = "owned"
         THEN drop(dropLog)
         ELSE /\ acc' = {}
              /\ UNCHANGED <<buf, dropLog>>
    /\ pc' = "done"
    /\ UNCHANGED <<caller, N, src, iterKind, produced, val, array, len, ret, panic>>

\* A panic unwinds: the frame's `val` is dropped, then the buffer if it is still
\* owned (the destructor of lines 97-107 runs during the unwind).
unwind ==
    /\ pc = "unwind"
    /\ IF buf = "owned"
         THEN drop(dropLog \o drop_val)
         ELSE /\ dropLog' = dropLog \o drop_val
              /\ acc' = {}
              /\ buf' = buf
    /\ val' = Uninit
    /\ result' = Panicked
    /\ pc' = "done"
    /\ UNCHANGED <<caller, N, src, iterKind, produced, array, len, arr, ret, panic>>

\* The caller drops the array it received (tests::partial_array_drop, line 176).
drop_result ==
    /\ pc = "done"
    /\ result.tag = "Ok"
    /\ dropLog' = dropLog \o drop_array(result.arr)
    /\ acc' = {}
    /\ pc' = "end"
    /\ UNCHANGED <<caller, N, src, iterKind, produced, val, array, len, buf, arr,
                   result, ret, panic>>

\* A client creates a buffer (tests, lines 139, 148, 170).
client_new ==
    /\ caller = "client"
    /\ new("idle")

\* A client pushes a new value (tests, lines 140-141, 149-151, 171-173).
client_push ==
    /\ pc = "idle"
    /\ \E v \in Vals : push(Item(produced, v), "idle")
    /\ produced' = produced + 1
    /\ UNCHANGED <<caller, N, src, iterKind, buf, arr, result, ret, dropLog>>

\* A client asks full().
client_full ==
    /\ pc = "idle"
    /\ ret' = <<full>>
    /\ acc' = {}
    /\ UNCHANGED <<caller, N, src, iterKind, produced, val, array, len, buf, arr,
                   result, panic, dropLog, pc>>

\* A client calls into_array (tests, lines 142, 174): the buffer is moved in.
client_into_array ==
    /\ pc = "idle"
    /\ pc' = "into_array"
    /\ acc' = {}
    /\ UNCHANGED <<caller, N, src, iterKind, produced, val, array, len, buf, arr,
                   result, ret, panic, dropLog>>

\* A client lets the buffer go out of scope without into_array.
client_abandon ==
    /\ pc = "idle"
    /\ drop(dropLog)
    /\ pc' = "done"
    /\ UNCHANGED <<caller, N, src, iterKind, produced, val, array, len, arr, result,
                   ret, panic>>

Next ==
    \/ try_from_iter_new
    \/ iter_next
    \/ loop_body
    \/ after_loop
    \/ into_array_read
    \/ into_array_forget
    \/ into_array_return
    \/ unwind
    \/ drop_result
    \/ client_new
    \/ client_push
    \/ client_full
    \/ client_into_array
    \/ client_abandon

Spec == Init /\ [][Next]_vars


-----------------------------------------------------------------------------
(* Vocabulary of the properties. *)

\* How often the value `id` was destructed.
Count(id) == Cardinality({k \in 1..Len(dropLog) : dropLog[k].id = id})

\* The identities of the values pushed so far (slots [0, len) of the storage).
Pushed == {array[i].id : i \in 0 .. (len - 1)}

\* The destructions performed by the buffer's destructor, in order.
ByBuffer == SelectSeq(dropLog, LAMBDA e : e.by = "buffer")

\* The destructions performed by dropping the completed array, in order.
ByArray == SelectSeq(dropLog, LAMBDA e : e.by = "array")

\* The run is over: nothing that owns a value is left.
Finished == pc = "end" \/ (pc = "done" /\ result.tag # "Ok")

\* The iterator yields exactly Len(src) values and then ends.
Yields(n) == iterKind = "finite" /\ Len(src) = n

\* C1: when the input sequence yields exactly N values, try_from_iter returns Ok
\* with an array of length N whose element i is the i-th value yielded.
C1_RoundTrip ==
    (caller = "adapter" /\ Yields(N) /\ pc \in {"done", "end"}) =>
        /\ result.tag = "Ok"
        /\ DOMAIN result.arr = Slots
        /\ \A i \in Slots : result.arr[i] = Item(i, src[i + 1])

C1_Witness ==
    /\ caller = "adapter" /\ Yields(N) /\ pc = "done"
    /\ N = 3 /\ src = <<2, 1, 2>>
    /\ result.tag = "Ok"

\* C2: when the number of values the sequence yields differs from N (fewer, or
\* more, including an endless sequence), try_from_iter returns
\* Err(NonMatchingLenError) and no array exists; both cases return the same value.
C2_LengthMismatch ==
    (/\ caller = "adapter"
     /\ iterKind = "endless" \/ (iterKind = "finite" /\ Len(src) # N)
     /\ pc \in {"done", "end"}) =>
        /\ result = Err
        /\ arr = <<>>
        /\ pc = "done"

C2_Witness ==
    /\ caller = "adapter" /\ iterKind = "finite" /\ pc = "done" /\ result = Err
    /\ N = 2
    /\ Len(src) = 3

\* C3: in a run of try_from_iter no pushed value is ever destructed twice, and
\* when the run is over (the returned array dropped, or the buffer abandoned)
\* every pushed value has been destructed exactly once.
C3_ExactlyOnce ==
    caller = "adapter" =>
        /\ \A id \in Pushed : Count(id) <= 1
        /\ Finished => \A id \in Pushed : Count(id) = 1
        /\ Finished => Pushed = 0 .. (len - 1)

C3_Witness ==
    /\ caller = "adapter" /\ Finished /\ N = 3 /\ len = 2
    /\ result = Err
    /\ Len(dropLog) = 2

\* C4: when into_array has returned after N pushes nothing has been destructed;
\* the buffer shell never destructs anything; dropping the returned array
\* destructs the N values once each, in index order 0, 1, ..., N-1.
C4_Finalize ==
    /\ (pc = "done" /\ result.tag = "Ok") =>
          /\ dropLog = <<>>
          /\ buf = "forgotten"
          /\ \A i \in Slots : result.arr[i].id = i
    /\ pc = "end" =>
          /\ dropLog = [i \in 1..N |-> [id |-> i - 1, by |-> "array"]]
          /\ ByBuffer = <<>>

C4_Witness ==
    /\ pc = "end" /\ caller = "client" /\ N = 3
    /\ Len(dropLog) = 3

\* C5: a buffer dropped without into_array having been called destructs exactly
\* the values of slots [0, len), ascending, once each, and touches no slot of
\* [len, N).
C5_Abandon ==
    (buf = "dropped" /\ panic # "PartialArray not yet fully initialized.") =>
        /\ ByBuffer = [i \in 1..len |-> [id |-> array[i - 1].id, by |-> "buffer"]]
        /\ \A id \in Pushed : Count(id) = 1
        /\ acc = {<<"drop", i>> : i \in 0 .. (len - 1)}
        /\ ByArray = <<>>

C5_Witness ==
    /\ buf = "dropped" /\ caller = "client" /\ panic = ""
    /\ N = 3 /\ len = 2
    /\ Len(dropLog) = 2

\* C6: a push on a full buffer (len = N) panics and changes nothing: len stays
\* N, no slot is written, read or destructed, and the buffer is still owned.
C6_PushFull ==
    [][(pc = "idle" /\ produced' = produced + 1 /\ len = N) =>
          /\ panic' = "PartialArray already full."
          /\ pc' = "unwind"
          /\ len' = N
          /\ array' = array
          /\ acc' = {}
          /\ dropLog' = dropLog
          /\ buf' = "owned"]_vars

C6_Witness ==
    /\ caller = "client" /\ pc = "unwind" /\ panic = "PartialArray already full."
    /\ N = 2 /\ len = 2
    /\ produced = 3

\* C7: into_array on a buffer with len < N panics, and no array is produced or
\* returned: a buffer below capacity never coexists with an array.
C7_IntoArrayNotFull ==
    /\ [][(pc = "into_array" /\ len < N) =>
             /\ panic' = "PartialArray not yet fully initialized."
             /\ pc' = "unwind"
             /\ arr' = <<>>
             /\ result' = NoResult]_vars
    /\ [](len < N => (arr = <<>> /\ result.tag # "Ok"))

C7_Witness ==
    /\ caller = "client" /\ pc = "done"
    /\ panic = "PartialArray not yet fully initialized."
    /\ result = Panicked
    /\ N = 3 /\ len = 2

\* The values the buffer's destructor would destruct if the buffer were let go now.
BufOwns == IF buf = "owned" THEN Pushed ELSE {}

\* The values held by an array: into_array's local, or the array the caller holds.
ArrOwns ==
    (IF arr # <<>> THEN {arr[1][i].id : i \in Slots} ELSE {})
      \cup (IF pc = "done" /\ result.tag = "Ok"
              THEN {result.arr[i].id : i \in Slots} ELSE {})

\* C8 as stated: in every reachable state, every intermediate step of into_array
\* included, no value is owned by both the buffer and the array.
C8_Original == BufOwns \cap ArrOwns = {}

\* C8 as amended: outside the point between the read (line 91) and the forget
\* (line 92) no value is owned by both the buffer and the array, and from that
\* point the only step is the forget, which cannot fail: it disarms the buffer,
\* raises no panic and destructs nothing.
C8_ExclusiveOwnership ==
    /\ [](pc # "forget" => BufOwns \cap ArrOwns = {})
    /\ [][pc = "forget" =>
             /\ buf' = "forgotten"
             /\ pc' = "return"
             /\ panic' = panic
             /\ dropLog' = dropLog]_vars

C8_Witness ==
    /\ pc = "return" /\ buf = "forgotten" /\ arr # <<>>
    /\ N = 3
    /\ ArrOwns = {0, 1, 2}

\* C9: try_from_iter never pushes on a full buffer and never finalizes a buffer
\* that is not full: neither assertion fires in a run of the adapter.
C9_AdapterInContract ==
    caller = "adapter" =>
        /\ panic \in {"", "iterator"}
        /\ pc = "into_array" => full
        /\ len <= N

C9_Witness ==
    /\ caller = "adapter" /\ pc = "done" /\ iterKind = "endless"
    /\ N = 2 /\ len = 2
    /\ produced = 3

\* C10: when the iterator panics after k <= N values were pushed, the buffer is
\* dropped by the unwind, exactly those k values are destructed, once each, and
\* no array is produced.
C10_IteratorPanic ==
    (caller = "adapter" /\ iterKind = "failing" /\ Len(src) <= N /\ pc = "done") =>
        /\ panic = "iterator"
        /\ result = Panicked
        /\ arr = <<>>
        /\ buf = "dropped"
        /\ len = Len(src)
        /\ dropLog = [i \in 1..Len(src) |-> [id |-> i - 1, by |-> "buffer"]]

C10_Witness ==
    /\ caller = "adapter" /\ iterKind = "failing" /\ pc = "done"
    /\ N = 3 /\ Len(src) = 2
    /\ Len(dropLog) = 2

\* A step in which the client calls full(): it stays idle and builds no value.
FullStep == pc = "idle" /\ pc' = "idle" /\ produced' = produced

\* C11: full() returns len = N and changes nothing; after k pushes into a fresh
\* buffer len is k, so full() is false for k < N and true for k = N; into_array
\* on a full buffer passes its assertion and reads the storage.
C11_ExactBoundary ==
    /\ [][FullStep =>
             /\ ret' = <<len = N>>
             /\ acc' = {}
             /\ UNCHANGED <<array, len, buf, arr, val, result, panic, dropLog>>]_vars
    /\ []((caller = "client" /\ pc = "idle") => (len = produced /\ len <= N))
    /\ [][(pc = "into_array" /\ len = N) =>
             /\ pc' = "forget"
             /\ panic' = ""
             /\ arr' = <<array>>]_vars
    /\ []((caller = "client" /\ pc = "done" /\ panic = "" /\ buf # "dropped") =>
             (result.tag = "Ok" /\ len = N))

C11_Witness ==
    /\ caller = "client" /\ pc = "done" /\ result.tag = "Ok"
    /\ ret = <<TRUE>>
    /\ N = 3 /\ produced = 3

\* C12 (I1): while the buffer is owned, 0 <= len <= N, every slot of [0, len)
\* holds one live (written, not destructed) value of its own, every slot of
\* [len, N) is uninitialized, and no step reads or destructs a slot of [len, N).
C12_SlotInvariant ==
    /\ buf = "owned" =>
          /\ len \in 0..N
          /\ \A i \in Slots : i < len => (array[i] # Uninit /\ Count(array[i].id) = 0)
          /\ \A i \in Slots : i >= len => array[i] = Uninit
          /\ \A i, j \in Slots : (i < j /\ j < len) => array[i].id # array[j].id
    /\ \A a \in acc : a[1] \in {"read", "drop"} => a[2] < len

C12_Witness ==
    /\ caller = "client" /\ buf = "owned" /\ pc = "unwind"
    /\ N = 3 /\ len = 3

\* C13 (I2): len never decreases; it changes only by +1, only from len < N and
\* only in a step that writes slot len; every step that writes a slot is such a
\* step; full(), a failed push and a failed into_array leave len unchanged.
C13_MonotoneCursor ==
    [][/\ len' # len => (len' = len + 1 /\ len < N /\ acc' = {<<"write", len>>})
       /\ (\E a \in acc' : a[1] = "write") => len' = len + 1
       /\ (FullStep \/ pc' = "unwind") => len' = len]_vars

C13_Witness ==
    /\ caller = "client" /\ pc = "unwind" /\ panic = "PartialArray not yet fully initialized."
    /\ N = 3 /\ len = 2

\* C14: a successful push with len = k < N stores the pushed value in slot k and
\* leaves every other slot as it was; it reads and destructs nothing.
C14_PushFrame ==
    [][len' = len + 1 =>
          /\ array'[len].id = IF caller = "adapter" THEN val.id ELSE produced
          /\ caller = "adapter" => array'[len] = val
          /\ array'[len] # Uninit
          /\ \A i \in Slots \ {len} : array'[i] = array[i]
          /\ acc' = {<<"write", len>>}
          /\ dropLog' = dropLog]_vars

C14_Witness ==
    /\ caller = "adapter" /\ pc = "for" /\ acc = {<<"write", 1>>}
    /\ N = 3 /\ len = 2
    /\ array[0].val # array[1].val

\* C15: when the iterator yields a value while the buffer is full, try_from_iter
\* returns Err at once: the extra value is not pushed, nothing is pulled or
\* pushed afterwards, and the abandoned buffer destructs its N values.
C15_OverflowStops ==
    /\ [][(caller = "adapter" /\ pc = "body" /\ len = N) =>
             /\ pc' = "done"
             /\ result' = Err
             /\ UNCHANGED <<array, len, produced>>
             /\ buf' = "dropped"
             /\ dropLog' = dropLog \o <<[id |-> val.id, by |-> "local"]>>
                             \o [i \in 1..N |-> [id |-> array[i - 1].id, by |-> "buffer"]]]_vars
    /\ [][result = Err => UNCHANGED vars]_vars
    /\ []((caller = "adapter" /\ produced > N) =>
             (len = N /\ produced = N + 1 /\ \A i \in Slots : array[i].id = i))

C15_Witness ==
    /\ caller = "adapter" /\ pc = "done" /\ result = Err
    /\ iterKind = "finite" /\ N = 2 /\ Len(src) = 4
    /\ produced = 3 /\ Len(dropLog) = 3

\* C16: a buffer ends finalized (forgotten by a successful into_array, which
\* happens only from len = N, the buffer destructing nothing) or abandoned (its
\* destructor ran); both are final: no push, into_array or second destructor
\* run follows, and a finished run has reached one of the two.
C16_Lifecycle ==
    /\ [](buf = "forgotten" => (len = N /\ ByBuffer = <<>>))
    /\ [](result.tag = "Ok" => (buf = "forgotten" /\ len = N))
    /\ [](Finished => buf \in {"forgotten", "dropped"})
    /\ [][buf # buf' =>
             \/ buf = "none" /\ buf' = "owned"
             \/ buf = "owned" /\ buf' = "forgotten" /\ pc = "forget" /\ len = N
             \/ buf = "owned" /\ buf' = "dropped" /\ ByBuffer = <<>>]_vars
    /\ [][(buf = "forgotten" \/ buf = "dropped") =>
             /\ UNCHANGED <<buf, array, len, ByBuffer>>
             /\ pc' \in {"return", "done", "end"}]_vars

C16_Witness ==
    /\ caller = "client" /\ pc = "done" /\ buf = "dropped"
    /\ N = 3 /\ len = 3
    /\ Len(ByBuffer) = 3

\* C17: a fresh buffer of capacity N > 0 has len = 0 and answers full() with
\* false, and a buffer abandoned before any push destructs nothing.
C17_EmptyBuffer ==
    /\ (buf = "owned" /\ produced = 0) => (len = 0 /\ (N > 0 => ~full))
    /\ (caller = "client" /\ produced = 0 /\ N > 0 /\ ret # <<>>) => ret = <<FALSE>>
    /\ (buf = "dropped" /\ produced = 0) => (dropLog = <<>> /\ acc = {})

C17_Witness ==
    /\ caller = "client" /\ buf = "dropped" /\ produced = 0
    /\ ret = <<FALSE>>
    /\ N = 3

\* How far the caller is from the end of its run, by position.
PcRank ==
    CASE pc = "end" -> 0
      [] pc = "done" -> 1
      [] pc = "return" -> 2
      [] pc = "unwind" -> 2
      [] pc = "forget" -> 3
      [] pc = "into_array" -> 4
      [] pc = "after" -> 5
      [] pc = "for" -> 7
      [] pc = "body" -> 8
      [] OTHER -> 9

\* A variant of try_from_iter: the position, plus two steps (pull, body) for
\* every value that may still be pulled before the N+1 pulls are used up.
Rank == PcRank + 2 * (N + 1 - produced)

\* C18: try_from_iter pulls at most N+1 values, whatever the sequence (an endless
\* one included); after the (N+1)-th pull its next step returns Err without
\* pulling again; and it terminates: every step of the adapter decreases the
\* variant Rank, which is never negative.
C18_BoundedConsumption ==
    /\ [](caller = "adapter" => (produced <= N + 1 /\ Rank >= 0))
    /\ []((caller = "adapter" /\ produced = N + 1) => pc \in {"body", "done"})
    /\ [][(caller = "adapter" /\ produced = N + 1 /\ pc = "body") =>
             (pc' = "done" /\ result' = Err /\ produced' = produced)]_vars
    /\ [][caller = "adapter" => Rank' < Rank]_vars

C18_Witness ==
    /\ caller = "adapter" /\ iterKind = "endless" /\ pc = "done"
    /\ N = 3 /\ produced = 4
    /\ result = Err

\* C19: with N = 0 a fresh buffer is full at once; try_from_iter returns Ok with
\* the empty array for an empty sequence, and Err for a sequence that yields a
\* value, without a push.
C19_ZeroCapacity ==
    N = 0 =>
        /\ buf = "owned" => full
        /\ (caller = "client" /\ ret # <<>>) => ret = <<TRUE>>
        /\ (caller = "adapter" /\ iterKind = "finite" /\ src = <<>> /\ pc \in {"done", "end"}) =>
              (result = Ok(NoArray) /\ dropLog = <<>>)
        /\ (caller = "adapter" /\ src # <<>> /\ pc \in {"done", "end"}) =>
              (result = Err /\ pc = "done" /\ produced = 1)
        /\ \A a \in acc : a[1] # "write"
        /\ len = 0

C19_Witness ==
    /\ N = 0 /\ caller = "adapter" /\ pc = "done"
    /\ src = <<1, 2>>
    /\ result = Err

\* C20: into_array on a buffer with len = k < N panics with the buffer still
\* owned and nothing destructed; the unwind drops the buffer, which destructs
\* exactly slots [0, k), ascending, once each.
C20_FailedFinalize ==
    panic = "PartialArray not yet fully initialized." =>
        /\ len < N
        /\ arr = <<>>
        /\ pc = "unwind" => (buf = "owned" /\ dropLog = <<>>)
        /\ pc # "unwind" =>
              /\ pc = "done" /\ result = Panicked /\ buf = "dropped"
              /\ dropLog = [i \in 1..len |-> [id |-> array[i - 1].id, by |-> "buffer"]]
              /\ \A id \in Pushed : Count(id) = 1
              /\ acc = {<<"drop", i>> : i \in 0 .. (len - 1)}

C20_Witness ==
    /\ panic = "PartialArray not yet fully initialized." /\ pc = "done"
    /\ caller = "client" /\ N = 3 /\ len = 2
    /\ Len(dropLog) = 2

=============================================================================
